---- MODULE Spec2Model ----
(***************************************************************************)
(* Receipt processing of greenbucks: the eco scoring engine                *)
(* (services/eco_scoring.py), the footprint estimator and the receipt text *)
(* extractor (services/integrations), and the upload orchestrator          *)
(* (api/routes/receipts.py).                                               *)
(*                                                                         *)
(* Number representation.  Money is counted in cents.  A footprint factor  *)
(* and a kgCO2e-per-dollar ratio are counted in hundredths.  An optional   *)
(* value is a sequence: <<>> is Python's None and <<v>> is the value v.    *)
(* A Python float that is not exactly a decimal of the model's resolution  *)
(* is a pair of the decimal just below it and a flag saying that the float *)
(* lies strictly above that decimal.                                       *)
(***************************************************************************)
EXTENDS Integers, Sequences, FiniteSets, TLC

\* ------------------------------------------------------------------ bounds
\* Uploads issued in one behaviour.
MaxUploads == 2
\* Lines of recognized text on one receipt.
MaxLines == 2
\* Largest ratio given to the banding function, in hundredths of kgCO2e/$.
MaxRatio == 250
\* Largest absolute transaction amount given to compute_cashback, in cents.
MaxAmount == 3400
\* Largest item price, in cents, given to estimate_item_footprint on its own.
MaxPrice == 30

VARIABLES
    autoflush,       \* the Session's autoflush setting (db/session.py is configuration)
    transactions,    \* committed Transaction rows, by id
    receipt_items,   \* committed ReceiptItem rows
    pc,              \* position of each upload_receipt call
    call,            \* (user_id, transaction_id) of each call that found its transaction
    items,           \* the list parse_receipt returned to each call
    session,         \* each call's uncommitted Session work
    last_upload,     \* per transaction, what the last committed upload extracted and returned
    before,          \* committed state as it was when each call started
    arg,             \* input of the pure function under check
    ret              \* its result

vars == <<autoflush, transactions, receipt_items, pc, call, items, session,
          last_upload, before, arg, ret>>

None == <<>>
Some(v) == <<v>>
IsNone(x) == x = <<>>
Val(x) == x[1]

Abs(n) == IF n < 0 THEN 0 - n ELSE n
Sign(n) == IF n < 0 THEN 0 - 1 ELSE IF n > 0 THEN 1 ELSE 0
Max(a, b) == IF a >= b THEN a ELSE b
Min(a, b) == IF a <= b THEN a ELSE b

\* ============================================================ eco_scoring.py

\* `x <= t` for a float x = (x.n hundredths, x.up) and a threshold literal of t
\* hundredths.  A double is <= the double nearest to t/100 exactly when it is
\* <= t/100, so the comparison is the one on the reals.
FloatLe(x, t) == x.n < t \/ (x.n = t /\ ~x.up)

\* A plausible slip: the 0.15 boundary taken exclusive.
score_strict_015(r) ==
    IF IsNone(r) THEN 5
    ELSE LET x == Val(r) IN
         IF FloatLe(x, 5) THEN 10
         ELSE IF FloatLe(x, 10) THEN 9
         ELSE IF FloatLe(x, 20) THEN (IF x.n < 15 THEN 8 ELSE 7)
         ELSE IF FloatLe(x, 40) THEN (IF FloatLe(x, 30) THEN 6 ELSE 5)
         ELSE IF FloatLe(x, 80) THEN (IF FloatLe(x, 60) THEN 4 ELSE 3)
         ELSE IF FloatLe(x, 120) THEN 2 ELSE IF FloatLe(x, 200) THEN 1 ELSE 0

\* score_from_co2e_per_dollar(co2e_per_usd): the nested conditionals as written.
score_from_co2e_per_dollar(r) ==
    IF IsNone(r) THEN 5
    ELSE LET x == Val(r) IN
         IF FloatLe(x, 5) THEN 10
         ELSE IF FloatLe(x, 10) THEN 9
         ELSE IF FloatLe(x, 20) THEN (IF FloatLe(x, 15) THEN 8 ELSE 7)
         ELSE IF FloatLe(x, 40) THEN (IF FloatLe(x, 30) THEN 6 ELSE 5)
         ELSE IF FloatLe(x, 80) THEN (IF FloatLe(x, 60) THEN 4 ELSE 3)
         ELSE IF FloatLe(x, 120) THEN 2 ELSE IF FloatLe(x, 200) THEN 1 ELSE 0

\* A plausible slip: the linear map written downwards.
multiplier_reversed(score) ==
    LET s == Max(0, Min(10, score)) IN
    [milli |-> 150 + (10 - s) * 485, err |-> 0]

\* map_score_to_multiplier(score): the bonus multiplier, a float.  milli is the
\* exact value 0.15 + (s/10)*4.85 in thousandths; err is the sign of the error
\* of the double the expression evaluates to, as str() prints it
\* (1.1199999999999999, 1.6049999999999998, 2.5749999999999997,
\* 3.0599999999999996, 3.5449999999999995 lie below; 4.515000000000001 above).
map_score_to_multiplier(score) ==
    LET s == Max(0, Min(10, score)) IN
    IF s = 0 THEN [milli |-> 150, err |-> 0]
    ELSE [milli |-> 150 + s * 485,
          err   |-> IF s \in {2, 3, 5, 6, 7} THEN 0 - 1
                    ELSE IF s = 9 THEN 1 ELSE 0]

\* A plausible slip: quantize with ROUND_DOWN (truncation towards zero).
quantize_down(num, den, err) ==
    Sign(num) * (Abs(num) \div den)

\* Decimal.quantize under the default context (ROUND_HALF_EVEN) of the value
\* num/den, perturbed by an error far smaller than 1/den of sign err: the
\* nearest integer, a tie going where the error points, else to the even one.
quantize(num, den, err) ==
    LET q == num \div den
        r == num % den
    IN  IF 2 * r < den THEN q
        ELSE IF 2 * r > den THEN q + 1
        ELSE IF err > 0 THEN q + 1
        ELSE IF err < 0 THEN q
        ELSE IF q % 2 = 0 THEN q ELSE q + 1

\* compute_cashback(amount, score), amount and result in cents.
\* base = amt * 0.01 is amount/100 cents; total = base + amt * 0.01 * m is
\* amount * (1000 + milli) / 100000 cents.
compute_cashback(amount, score) ==
    IF IsNone(score) THEN quantize(amount, 100, 0)
    ELSE LET m == map_score_to_multiplier(Val(score)) IN
         quantize(amount * (1000 + m.milli), 100000, m.err * Sign(amount))


\* ============================================ integrations/item_category_map.py

\* FALLBACK_KG_CO2E_PER_USD, in table order, factors in hundredths.
FALLBACK_KG_CO2E_PER_USD ==
    << <<"organic", 5>>, <<"kale", 6>>, <<"banana", 8>>, <<"coffee", 25>>,
       <<"beef", 500>>, <<"chicken", 180>>, <<"pork", 300>>, <<"rice", 40>>,
       <<"bread", 30>>, <<"salad", 20>>, <<"grocery", 30>>, <<"shirt", 120>>,
       <<"electronics", 60>>, <<"toy", 50>>, <<"book", 20>> >>

DEFAULT_KG_CO2E_PER_USD == 50

\* The keywords of the table that occur in the lowercased name (`key in n`),
\* for the item names of the model.
KeysIn(name) ==
    CASE name = "Organic Grocery Kale" -> {"organic", "grocery", "kale"}
      [] name = "Beef Patty"           -> {"beef"}
      [] name = "Bread"                -> {"bread"}
      [] name = "ORGANIC GROCERY"      -> {"organic", "grocery"}
      [] name = "Toy Book"             -> {"toy", "book"}
      [] OTHER                         -> {}

\* lookup_kg_co2e_per_usd with the loop keeping the last hit instead of returning
\* at the first.
lookup_last_match(name) ==
    LET hits == {i \in 1..Len(FALLBACK_KG_CO2E_PER_USD) :
                    FALLBACK_KG_CO2E_PER_USD[i][1] \in KeysIn(name)}
    IN  IF hits = {} THEN DEFAULT_KG_CO2E_PER_USD
        ELSE FALLBACK_KG_CO2E_PER_USD[CHOOSE i \in hits : \A j \in hits : i >= j][2]

\* lookup_kg_co2e_per_usd(name): the first table entry whose key occurs in the name.
lookup_kg_co2e_per_usd(name) ==
    LET hits == {i \in 1..Len(FALLBACK_KG_CO2E_PER_USD) :
                    FALLBACK_KG_CO2E_PER_USD[i][1] \in KeysIn(name)}
    IN  IF hits = {} THEN DEFAULT_KG_CO2E_PER_USD
        ELSE FALLBACK_KG_CO2E_PER_USD[CHOOSE i \in hits : \A j \in hits : i <= j][2]

\* ============================================== integrations/climatiq_client.py

\* _mock_estimate(name, price, qty): factor * price in 1e-4 kg, price 1.0 when None.
mock_estimate(name, price, qty) ==
    lookup_kg_co2e_per_usd(name) * (IF IsNone(price) THEN 100 ELSE Val(price))

\* estimate_item_footprint(name, price, qty); real is
\* settings.use_real_climatiq and settings.climatiq_api_key.
estimate_item_footprint(real, name, price, qty) ==
    IF ~real THEN mock_estimate(name, price, qty)
    ELSE mock_estimate(name, price, qty)

\* ============================================ integrations/ocr_google_vision.py

\* _mock_parse(image_bytes)
mock_parse == << [name |-> "Unknown Item", price |-> None, qty |-> None] >>

\* One stripped line of recognized text, by what the regular expression makes of
\* it: match says whether it ends in a price, name is the text before the price
\* after strip("-: .\t"), price the amount matched by \d+\.\d{1,2} (never negative).
LineKinds ==
    { [match |-> FALSE, name |-> "TOTAL", price |-> 0],
      [match |-> TRUE, name |-> "", price |-> 123],
      [match |-> TRUE, name |-> "Organic Grocery Kale", price |-> 1000],
      [match |-> TRUE, name |-> "Beef Patty", price |-> 3000],
      [match |-> TRUE, name |-> "Bread", price |-> 57],
      [match |-> TRUE, name |-> "Free Sample", price |-> 0] }

SeqsUpTo(S, n) == UNION {[1..k -> S] : k \in 0..n}

Texts == SeqsUpTo(LineKinds, MaxLines)

\* What the recognition adapter does: it fails, or it returns the lines of the text.
AdapterOutcomes ==
    {[ok |-> FALSE, text |-> <<>>]} \cup {[ok |-> TRUE, text |-> t] : t \in Texts}

RECURSIVE ParseLines(_)
\* The loop over text.splitlines(): a line that matches and has a name is an item.
ParseLines(text) ==
    IF text = <<>> THEN <<>>
    ELSE LET line == Head(text) IN
         (IF line.match /\ line.name # ""
          THEN << [name |-> line.name, price |-> Some(line.price), qty |-> None] >>
          ELSE <<>>) \o ParseLines(Tail(text))

\* parse_receipt with `return items` as its last line, without the fallback of
\* `items or _mock_parse(image_bytes)`.
parse_receipt_no_fallback(real, outcome) ==
    IF ~real THEN mock_parse
    ELSE IF ~outcome.ok THEN mock_parse
    ELSE IF outcome.text = <<>> THEN mock_parse
    ELSE ParseLines(outcome.text)

\* parse_receipt(image_bytes); real is settings.use_real_ocr and
\* settings.google_vision_api_key, outcome what the adapter does with the bytes.
parse_receipt(real, outcome) ==
    IF ~real THEN mock_parse
    ELSE IF ~outcome.ok THEN mock_parse
    ELSE IF outcome.text = <<>> THEN mock_parse
    ELSE LET parsed == ParseLines(outcome.text) IN
         IF parsed = <<>> THEN mock_parse ELSE parsed


\* ==================================================== api/routes/receipts.py

\* The user_id and transaction_id values a call comes with.
Users == {1, 2}
TxInputs == {1, 2}
\* The ids of the stored transactions: transaction_id 2 matches no row.
TxIds == {1}
Reqs == 1..MaxUploads

\* The Transaction row the uploads work on: it belongs to user 1, its derived
\* columns are still empty and the receipt is still wanted.
InitTransactions ==
    [t \in TxIds |->
        [user_id |-> 1, amount |-> 2000,
         eco_score |-> None, cashback_usd |-> None, needs_receipt |-> TRUE]]

NoSession == [loaded |-> None, deleted |-> {}, added |-> <<>>, tx |-> None]

\* kg / float(price): a float holding kgCO2e per dollar.  kg is in 1e-4 kg and price
\* in cents, so the quotient is in hundredths.  The double division returns a value
\* one ulp above the decimal quotient for the prices 0.57 (quotients 0.30, 0.60,
\* 1.20) and 0.35 (quotients 0.05, 0.20, 0.40) and the exact double for the other
\* prices of the model.
float_div(kg, price) ==
    LET q == kg \div price IN
    [n  |-> q,
     up |-> \/ kg % price # 0
            \/ price = 57 /\ q \in {30, 60, 120}
            \/ price = 35 /\ q \in {5, 20, 40}]

\* `price and price > 0`
Positive(price) == ~IsNone(price) /\ Val(price) > 0

\* One pass of the loop over items: the ReceiptItem handed to db.add.  id stands for
\* the primary key the row gets: the call and the position in its list.
ReceiptItem(id, tid, it, real) ==
    LET name == IF it.name = "" THEN "Unknown" ELSE it.name
        kg == estimate_item_footprint(real, name, it.price, it.qty)
    IN  [id |-> id, transaction_id |-> tid, name |-> name, price |-> it.price, qty |-> it.qty,
         kg_co2e |-> kg,
         item_score |-> IF Positive(it.price)
                        THEN score_from_co2e_per_dollar(Some(float_div(kg, Val(it.price))))
                        ELSE 5]

RECURSIVE total_price(_)
\* total_price after the loop: the sum of the positive prices.
total_price(rows) ==
    IF rows = <<>> THEN 0
    ELSE (IF Positive(Head(rows).price) THEN Val(Head(rows).price) ELSE 0)
         + total_price(Tail(rows))

RECURSIVE weighted_score_sum(_)
\* weighted_score_sum after the loop: the sum of price * item_score over them.
weighted_score_sum(rows) ==
    IF rows = <<>> THEN 0
    ELSE (IF Positive(Head(rows).price)
          THEN Val(Head(rows).price) * Head(rows).item_score ELSE 0)
         + weighted_score_sum(Tail(rows))

\* A plausible slip: int() of the quotient, which truncates.
weighted_mean_truncated(rows) ==
    weighted_score_sum(rows) \div total_price(rows)

\* int((weighted_score_sum / total_price).quantize(Decimal("1")))
weighted_mean(rows) ==
    quantize(weighted_score_sum(rows), total_price(rows), 0)

\* max(0, min(10, tx_score))
Clamp(tx_score) == Max(0, Min(10, tx_score))

\* The rows db.query(ReceiptItem).filter(transaction_id == tx.id).all() returns to
\* call r inside its database transaction: the committed rows it has not deleted,
\* and its own added rows once they are flushed, which the query does first when
\* the Session autoflushes.
QueryItems(r) ==
    {row \in receipt_items :
        row.transaction_id = Val(call[r]).transaction_id /\ row.id \notin session[r].deleted}
    \cup (IF autoflush
          THEN {session[r].added[i] : i \in 1..Len(session[r].added)}
          ELSE {})

\* A plausible slip: a bulk delete that is committed on its own (autocommit).
DeleteAutocommit(rows, tid) == {row \in rows : row.transaction_id # tid}

\* What the bulk delete of line 37 makes of the committed rows: nothing, before
\* the commit.  The statement runs inside the call's database transaction.
DeleteInTransaction(rows, tid) == rows

\* A plausible slip: the old rows are not cleared, the new ones are merged in.
CommitMerged(rows, deleted, added) == rows \cup added

\* The committed ReceiptItem rows after db.commit() of a session that deleted the
\* rows `deleted` and added the rows `added`.
CommitItems(rows, deleted, added) ==
    {row \in rows : row.id \notin deleted} \cup added

\* The committed Transaction row after db.commit(): the UPDATE carries the
\* attributes whose value differs from the one the session loaded.
CommitTx(row, loaded, new) ==
    [row EXCEPT
        !.eco_score = IF new.eco_score # loaded.eco_score THEN new.eco_score ELSE @,
        !.needs_receipt = IF new.needs_receipt # loaded.needs_receipt
                          THEN new.needs_receipt ELSE @,
        !.cashback_usd = IF new.cashback_usd # loaded.cashback_usd
                         THEN new.cashback_usd ELSE @]

Failed == {"err404", "err400", "err500"}
Finished == Failed \cup {"done"}

\* Line 26: a Transaction with this id and this user_id exists.
Found(user_id, transaction_id) ==
    /\ transaction_id \in DOMAIN transactions
    /\ transactions[transaction_id].user_id = user_id

Snapshot == [transactions |-> transactions, receipt_items |-> receipt_items]

\* Lines 26-34: look the transaction up, read the file, parse it.  Calls are
\* numbered in the order they arrive.
Begin(r) ==
    /\ pc[r] = "idle"
    /\ \A o \in Reqs : o < r => pc[o] # "idle"
    /\ \E user_id \in Users, transaction_id \in TxInputs,
          real \in BOOLEAN, outcome \in AdapterOutcomes :
          LET found == Found(user_id, transaction_id)
              parsed == parse_receipt(real, outcome)
          IN  IF ~found
              THEN /\ pc' = [pc EXCEPT ![r] = "err404"]
                   /\ UNCHANGED <<call, items, session, before>>
              ELSE IF parsed = <<>>
              THEN /\ pc' = [pc EXCEPT ![r] = "err400"]
                   /\ UNCHANGED <<call, items, session, before>>
              ELSE /\ pc' = [pc EXCEPT ![r] = "parsed"]
                   /\ call' = [call EXCEPT ![r] =
                          Some([user_id |-> user_id, transaction_id |-> transaction_id])]
                   /\ items' = [items EXCEPT ![r] = parsed]
                   /\ session' = [session EXCEPT ![r] =
                          [NoSession EXCEPT
                              !.loaded = Some(transactions[transaction_id])]]
                   /\ before' = [before EXCEPT ![r] = Some(Snapshot)]
    /\ UNCHANGED <<autoflush, transactions, receipt_items, last_upload, arg, ret>>

\* Line 37: the bulk delete of the transaction's rows.  Under READ COMMITTED the
\* statement removes, for this session, the rows committed when it runs; the other
\* sessions see it at the commit.
DeleteOld(r) ==
    /\ pc[r] = "parsed"
    /\ LET tid == Val(call[r]).transaction_id IN
       /\ session' = [session EXCEPT ![r].deleted =
              {row.id : row \in {x \in receipt_items : x.transaction_id = tid}}]
       /\ receipt_items' = DeleteInTransaction(receipt_items, tid)
    /\ pc' = [pc EXCEPT ![r] = "deleted"]
    /\ UNCHANGED <<autoflush, transactions, call, items, last_upload, before,
                   arg, ret>>

\* Lines 39-64: the loop over the items.  Nothing shared is read or written.
Estimate(r) ==
    /\ pc[r] = "deleted"
    /\ \E real \in BOOLEAN :
          session' = [session EXCEPT ![r].added =
              [i \in 1..Len(items[r]) |->
                  ReceiptItem(<<r, i>>, Val(call[r]).transaction_id, items[r][i], real)]]
    /\ pc' = [pc EXCEPT ![r] = "estimated"]
    /\ UNCHANGED <<autoflush, transactions, receipt_items, call, items,
                   last_upload, before, arg, ret>>

\* Lines 66-76: the transaction score and the cashback, set on the loaded
\* Transaction.  Without a positive price the rows are queried back and
\* it.get("item_score") is called on each: a ReceiptItem has no get, so any row
\* raises AttributeError; the request ends with a 500 and the session is closed
\* without a commit.  No row leaves tx_score at 5.
Aggregate(r) ==
    /\ pc[r] = "estimated"
    /\ LET rows == session[r].added
           tx == Val(session[r].loaded)
       IN  \/ /\ total_price(rows) > 0 \/ QueryItems(r) = {}
              /\ LET tx_score == IF total_price(rows) > 0 THEN weighted_mean(rows) ELSE 5
                     eco == Clamp(tx_score)
                 IN  session' = [session EXCEPT ![r].tx =
                         Some([eco_score |-> Some(eco), needs_receipt |-> FALSE,
                               cashback_usd |-> Some(compute_cashback(tx.amount, Some(eco)))])]
              /\ pc' = [pc EXCEPT ![r] = "aggregated"]
              /\ UNCHANGED <<items, before>>
           \/ /\ ~(total_price(rows) > 0) /\ QueryItems(r) # {}
              /\ session' = [session EXCEPT ![r] = NoSession]
              /\ items' = [items EXCEPT ![r] = <<>>]
              /\ pc' = [pc EXCEPT ![r] = "err500"]
              /\ before' = [before EXCEPT ![r] = None]
    /\ UNCHANGED <<autoflush, transactions, receipt_items, call, last_upload,
                   arg, ret>>

\* Lines 78-86: db.commit() and the returned dict, which last_upload keeps with
\* the call that returned it and the items it had extracted.
Commit(r) ==
    /\ pc[r] = "aggregated"
    /\ LET tid == Val(call[r]).transaction_id
           added == {session[r].added[i] : i \in 1..Len(session[r].added)}
           row == CommitTx(transactions[tid], Val(session[r].loaded), Val(session[r].tx))
       IN  /\ receipt_items' = CommitItems(receipt_items, session[r].deleted, added)
           /\ transactions' = [transactions EXCEPT ![tid] = row]
           /\ last_upload' = [last_upload EXCEPT ![tid] =
                  Some([by |-> r, items |-> items[r],
                        returned |-> [transaction_id |-> tid,
                                      eco_score |-> row.eco_score,
                                      cashback_usd |-> row.cashback_usd,
                                      items |-> Len(items[r])]])]
    /\ pc' = [pc EXCEPT ![r] = "done"]
    /\ session' = [session EXCEPT ![r] = NoSession]
    /\ items' = [items EXCEPT ![r] = <<>>]
    /\ before' = [before EXCEPT ![r] = None]
    /\ call' = [call EXCEPT ![r] = None]
    /\ UNCHANGED <<autoflush, arg, ret>>

\* The state before the first upload.
UploadInit ==
    /\ transactions = InitTransactions
    /\ receipt_items = {}
    /\ pc = [r \in Reqs |-> "idle"]
    /\ call = [r \in Reqs |-> None]
    /\ items = [r \in Reqs |-> <<>>]
    /\ session = [r \in Reqs |-> NoSession]
    /\ last_upload = [t \in TxIds |-> None]
    /\ before = [r \in Reqs |-> None]

Init ==
    /\ autoflush \in BOOLEAN
    /\ UploadInit
    /\ arg = None
    /\ ret = None

\* Uploads served by workers that share the database: their statements interleave.
Next ==
    \E r \in Reqs : Begin(r) \/ DeleteOld(r) \/ Estimate(r) \/ Aggregate(r) \/ Commit(r)

Spec == Init /\ [][Next]_vars

\* No other call is between its lookup and its end.
Quiet(r) == \A o \in Reqs \ {r} : pc[o] \in Finished \cup {"idle"}

\* Uploads issued one after the other.
NextSeq ==
    \E r \in Reqs :
        (Quiet(r) /\ Begin(r)) \/ DeleteOld(r) \/ Estimate(r) \/ Aggregate(r) \/ Commit(r)

SpecSeq == Init /\ [][NextSeq]_vars


\* ======================================================= the pure functions

\* The ratios given to the banding function: None, and the floats from -0.10 to
\* MaxRatio hundredths, on a hundredth or strictly between two.
RatioInputs ==
    {None} \cup {Some([n |-> n, up |-> u]) : n \in (0 - 10)..MaxRatio, u \in BOOLEAN}

InitBand ==
    /\ autoflush = TRUE
    /\ UploadInit
    /\ arg \in {[ratio |-> x] : x \in RatioInputs}
    /\ ret = None

ApplyBand ==
    /\ IsNone(ret)
    /\ ret' = Some(score_from_co2e_per_dollar(arg.ratio))
    /\ UNCHANGED <<autoflush, transactions, receipt_items, pc, call, items, session,
                   last_upload, before, arg>>

SpecBand == InitBand /\ [][ApplyBand]_vars

\* The amounts and scores given to compute_cashback: amounts in whole cents, refunds
\* (negative) included; scores None, 0..10 and one beyond either end.
ScoreInputs == (0 - 1)..11
CashInputs ==
    [amount : (0 - MaxAmount)..MaxAmount,
     score  : {None} \cup {Some(sc) : sc \in ScoreInputs}]

InitCash ==
    /\ autoflush = TRUE
    /\ UploadInit
    /\ arg \in CashInputs
    /\ ret = None

ApplyCash ==
    /\ IsNone(ret)
    /\ ret' = Some(compute_cashback(arg.amount, arg.score))
    /\ UNCHANGED <<autoflush, transactions, receipt_items, pc, call, items, session,
                   last_upload, before, arg>>

SpecCash == InitCash /\ [][ApplyCash]_vars

\* The settings and adapter outcomes parse_receipt runs under.
ParseInputs == [real : BOOLEAN, outcome : AdapterOutcomes]

InitParse ==
    /\ autoflush = TRUE
    /\ UploadInit
    /\ arg \in ParseInputs
    /\ ret = None

\* receipts.py lines 32-34: items = await parse_receipt(data), and the 400
\* "Could not parse receipt" when `not items`.
ApplyParse ==
    /\ IsNone(ret)
    /\ LET parsed == parse_receipt(arg.real, arg.outcome)
       IN  ret' = Some([items  |-> parsed,
                        status |-> IF parsed = <<>> THEN "err400" ELSE "parsed"])
    /\ UNCHANGED <<autoflush, transactions, receipt_items, pc, call, items, session,
                   last_upload, before, arg>>

SpecParse == InitParse /\ [][ApplyParse]_vars

\* The calls of estimate_item_footprint: either setting of the real-service flag
\* and key, names with several, one or no keyword (the empty name included),
\* prices None and 0.00 to MaxPrice cents, quantity absent or given.
EstimateNames ==
    {"Organic Grocery Kale", "ORGANIC GROCERY", "Beef Patty", "Bread", "Toy Book",
     "Unknown Item", ""}
EstimateInputs ==
    [real  : BOOLEAN,
     name  : EstimateNames,
     price : {None} \cup {Some(c) : c \in 0..MaxPrice},
     qty   : {None, Some(2)}]

InitEstimate ==
    /\ autoflush = TRUE
    /\ UploadInit
    /\ arg \in EstimateInputs
    /\ ret = None

ApplyEstimate ==
    /\ IsNone(ret)
    /\ ret' = Some(estimate_item_footprint(arg.real, arg.name, arg.price, arg.qty))
    /\ UNCHANGED <<autoflush, transactions, receipt_items, pc, call, items, session,
                   last_upload, before, arg>>

SpecEstimate == InitEstimate /\ [][ApplyEstimate]_vars

\* ====================================================================== claims

StoredItems(t) == {row \in receipt_items : row.transaction_id = t}

\* C1: under uploads issued one after the other, the committed ReceiptItem rows of a
\* transaction are exactly the items the last committed upload extracted, in its
\* rows only, and their number is the item count that upload returned; a
\* transaction no upload committed for has no rows.
C1_Replaced ==
    \A t \in TxIds :
        IF IsNone(last_upload[t]) THEN StoredItems(t) = {}
        ELSE LET u == Val(last_upload[t]) IN
             /\ {[at |-> row.id[2], name |-> row.name, price |-> row.price,
                  qty |-> row.qty] : row \in StoredItems(t)}
                = {[at |-> i, name |-> u.items[i].name, price |-> u.items[i].price,
                    qty |-> u.items[i].qty] : i \in 1..Len(u.items)}
             /\ \A row \in StoredItems(t) : row.id[1] = u.by
             /\ Cardinality(StoredItems(t)) = u.returned.items

\* Transaction 1 was uploaded twice, the second time with two items: the two rows
\* of the second upload are stored.
C1_Witness ==
    /\ pc[1] = "done" /\ pc[2] = "done"
    /\ ~IsNone(last_upload[1]) /\ Val(last_upload[1]).by = 2
    /\ Val(last_upload[1]).returned.items = 2
    /\ {row.id : row \in StoredItems(1)} = {<<2, 1>>, <<2, 2>>}

\* C2: a step that ends an upload in an error (404, 400, or an exception between
\* the delete and the commit) leaves the committed rows and the transaction's
\* eco_score, cashback_usd and needs_receipt as they were when the call started.
C2_NoMutation ==
    [][\A r \in Reqs :
          (pc[r] \notin Failed /\ pc'[r] \in Failed)
          => Snapshot' = (IF pc[r] = "idle" THEN Snapshot ELSE Val(before[r]))]_vars

\* The second upload failed after its delete, and the first upload's rows and
\* score are still there.
C2_Witness ==
    /\ pc[1] = "done" /\ pc[2] = "err500"
    /\ Val(call[2]).transaction_id = 1
    /\ StoredItems(1) # {} /\ \A row \in StoredItems(1) : row.id[1] = 1
    /\ ~IsNone(transactions[1].eco_score)

\* C3, its committed part: under concurrent uploads the committed rows of a
\* transaction come from one upload only, and its eco_score and cashback_usd are
\* the ones computed from those rows.
C3_Serialized ==
    \A t \in TxIds :
        /\ Cardinality({row.id[1] : row \in StoredItems(t)}) <= 1
        /\ ~IsNone(last_upload[t]) =>
              LET u == Val(last_upload[t]) IN
              /\ \A row \in StoredItems(t) : row.id[1] = u.by
              /\ u.returned.items = Cardinality(StoredItems(t))
              /\ transactions[t].eco_score = u.returned.eco_score
              /\ transactions[t].cashback_usd = u.returned.cashback_usd

\* C4: an upload for a transaction of the requesting user whose extraction
\* returned an item never ends in an error.
C4_NeverFails ==
    \A r \in Reqs :
        (/\ ~IsNone(call[r])
         /\ Found(Val(call[r]).user_id, Val(call[r]).transaction_id)
         /\ pc[r] # "err400")
        => pc[r] \notin Failed

RECURSIVE SumOver(_, _)
\* The sum of price (weighted = FALSE) or of price * item_score over a set of rows.
SumOver(rows, weighted) ==
    IF rows = {} THEN 0
    ELSE LET row == CHOOSE x \in rows : TRUE IN
         Val(row.price) * (IF weighted THEN row.item_score ELSE 1)
         + SumOver(rows \ {row}, weighted)

\* C5: when a committed upload had an item with a positive price, the persisted
\* eco_score is in 0..10 and within 1/2 of sum(price * item_score) / sum(price)
\* over the stored rows with a positive price; the other rows count in neither
\* sum.  Prices 10 and 30 with scores 8 and 4 give 5.
C5_WeightedMean ==
    /\ Clamp(weighted_mean(<< [price |-> Some(1000), item_score |-> 8],
                              [price |-> Some(3000), item_score |-> 4] >>)) = 5
    /\ \A t \in TxIds :
          LET priced == {row \in StoredItems(t) : Positive(row.price)}
              P == SumOver(priced, FALSE)
              W == SumOver(priced, TRUE)
          IN  (~IsNone(last_upload[t]) /\ priced # {})
              => /\ ~IsNone(transactions[t].eco_score)
                 /\ Val(transactions[t].eco_score) \in 0..10
                 /\ 2 * Abs(Val(transactions[t].eco_score) * P - W) <= P

\* A committed upload with a free item (price 0, score 5) beside a priced one
\* (score 10): the free item does not count and the score is 10.
C5_Witness ==
    \E t \in TxIds :
        /\ ~IsNone(last_upload[t])
        /\ \E row \in StoredItems(t) : row.price = Some(0) /\ row.item_score = 5
        /\ \E row \in StoredItems(t) : row.price = Some(1000) /\ row.item_score = 10
        /\ transactions[t].eco_score = Some(10)

RECURSIVE SumScores(_)
SumScores(rows) ==
    IF rows = <<>> THEN 0 ELSE Head(rows).item_score + SumScores(Tail(rows))

\* C6: the aggregation step of an upload whose items are not empty and have no
\* positive price sets the floor of the unweighted mean of its item scores as the
\* transaction score.
C6_UnweightedMean ==
    [][\A r \in Reqs :
          (/\ pc[r] = "estimated" /\ pc'[r] # "estimated"
           /\ items[r] # <<>>
           /\ \A i \in 1..Len(items[r]) : ~Positive(items[r][i].price))
          => /\ pc'[r] = "aggregated"
             /\ Val(session'[r].tx).eco_score
                = Some(Clamp(SumScores(session[r].added) \div Len(session[r].added)))]_vars

\* The inclusive upper bounds of the bands, in hundredths, best score first.
BandBounds == <<5, 10, 15, 20, 30, 40, 60, 80, 120, 200>>

\* x <= y for two floats.
FloatLeq(x, y) == x.n < y.n \/ (x.n = y.n /\ (y.up \/ ~x.up))

\* C7: the score of a ratio is 10 minus the number of band bounds the ratio
\* exceeds, 5 for None, and no larger ratio scores higher.
C7_Banding ==
    ~IsNone(ret) =>
        IF IsNone(arg.ratio) THEN Val(ret) = 5
        ELSE LET x == Val(arg.ratio) IN
             /\ Val(ret) = 10 - Cardinality({i \in 1..Len(BandBounds) :
                                                ~FloatLe(x, BandBounds[i])})
             /\ \A y \in RatioInputs \ {None} :
                    FloatLeq(x, Val(y)) => score_from_co2e_per_dollar(y) <= Val(ret)

\* The ratio 0.15 scored 8: the bound is inclusive.
C7_Witness ==
    /\ arg.ratio = Some([n |-> 15, up |-> FALSE])
    /\ ret = Some(8)

\* c is the integer nearest to num/den; on a tie, the one the error of sign bias
\* points to, the even one when there is no error.
Nearest(c, num, den, bias) ==
    /\ 2 * Abs(c * den - num) <= den
    /\ 2 * Abs(c * den - num) = den =>
          IF bias = 0 THEN c % 2 = 0 ELSE (c * den - num) * bias > 0

\* The sign of the error of the double 0.15 + (s/10.0)*4.85.
MultiplierError(s) == IF s \in {2, 3, 5, 6, 7} THEN 0 - 1 ELSE IF s = 9 THEN 1 ELSE 0

HalfUp(num, den) == Sign(num) * ((2 * Abs(num) + den) \div (2 * den))

C9_AtLeastBase ==
    (/\ ~IsNone(ret)
     /\ arg.amount > 0
     /\ ~IsNone(arg.score) /\ Val(arg.score) \in 0..10)
    => 100 * Val(ret) >= arg.amount

\* compute_cashback is non-decreasing in the score from the score of the state on,
\* and where that score is 0, the score 10 pays strictly more.
MonotoneFromHere(strict) ==
    /\ \A s2 \in ScoreInputs :
          Val(arg.score) <= s2 => Val(ret) <= compute_cashback(arg.amount, Some(s2))
    /\ (strict /\ Val(arg.score) = 0) => compute_cashback(arg.amount, Some(10)) > Val(ret)

\* C10 as claimed: non-decreasing in the score for every amount, and strictly more
\* at 10 than at 0 for every positive amount.
C10_Monotone ==
    (~IsNone(ret) /\ ~IsNone(arg.score) /\ Val(arg.score) \in 0..10)
    => MonotoneFromHere(arg.amount > 0)

\* C10 as amended: non-decreasing in the score for every amount >= 0, and strictly
\* more at 10 than at 0 for every amount of at least 0.09.
C10_MonotoneNonNegative ==
    (~IsNone(ret) /\ ~IsNone(arg.score) /\ arg.amount >= 0)
    => MonotoneFromHere(arg.amount >= 9)

\* 0.09 at score 0 pays 0.00, and 0.01 at score 10.
C10_Witness ==
    /\ arg = [amount |-> 9, score |-> Some(0)]
    /\ ret = Some(0)
    /\ compute_cashback(9, Some(10)) = 1

\* ------------------------------------------------------------------------ C11
\* The paths of parse_receipt the claim lists: recognition disabled or
\* unconfigured, the adapter failed, no text, or no line that ends in a price and
\* has a name.
NothingRecognized ==
    \/ ~arg.real
    \/ ~arg.outcome.ok
    \/ arg.outcome.text = <<>>
    \/ \A i \in 1..Len(arg.outcome.text) :
          ~arg.outcome.text[i].match \/ arg.outcome.text[i].name = ""

\* C11: parse_receipt never returns an empty list; on every path where nothing is
\* recognized it returns exactly the one item Unknown Item with no price and no
\* quantity, and upload_receipt never answers 400 "Could not parse receipt".
C11_NeverEmpty ==
    ~IsNone(ret) =>
        /\ Val(ret).items # <<>>
        /\ Val(ret).status # "err400"
        /\ NothingRecognized =>
               Val(ret).items = << [name |-> "Unknown Item", price |-> <<>>, qty |-> <<>>] >>

\* Recognition is on and returns two lines, one without a price and one with a
\* price but no name: the result is the single Unknown Item.
C11_Witness ==
    /\ arg.real /\ arg.outcome.ok
    /\ Len(arg.outcome.text) = 2
    /\ ~arg.outcome.text[1].match
    /\ arg.outcome.text[2].match /\ arg.outcome.text[2].name = ""
    /\ ~IsNone(ret)
    /\ Len(Val(ret).items) = 1
    /\ Val(ret).items[1].name = "Unknown Item"
    /\ Val(ret).status = "parsed"

\* ------------------------------------------------------------------------ C12
\* The price the factor is multiplied by, in cents: 1.00 when the price is null.
PriceOrOne == IF arg.price = <<>> THEN 100 ELSE arg.price[1]

\* C12: estimate_item_footprint returns a number under either setting of the
\* real-service flag: the factor of the first Factor Table keyword that occurs in
\* the name times the price (1.0 when null), the default 0.5 times the price when
\* no keyword occurs, and the "organic" factor 0.05 when both "organic" and
\* "grocery" occur.
C12_FactorTimesPrice ==
    ~IsNone(ret) =>
        LET keys  == KeysIn(arg.name)
            table == FALLBACK_KG_CO2E_PER_USD
        IN  /\ Val(ret) \in Nat
            /\ \A i \in 1..Len(table) :
                  (table[i][1] \in keys /\ \A j \in 1..(i - 1) : table[j][1] \notin keys)
                  => Val(ret) = table[i][2] * PriceOrOne
            /\ (\A i \in 1..Len(table) : table[i][1] \notin keys)
                  => Val(ret) = 50 * PriceOrOne
            /\ {"organic", "grocery"} \subseteq keys => Val(ret) = 5 * PriceOrOne

\* With the real service switched on, ORGANIC GROCERY without a price is 0.05 kg.
C12_Witness ==
    /\ arg.real
    /\ arg.name = "ORGANIC GROCERY"
    /\ IsNone(arg.price)
    /\ ret = Some(500)

\* ------------------------------------------------------------------------ C13
\* kg_co2e / price of a stored row with a positive price, as the exact quotient of
\* the two stored decimals (kg_co2e in 1e-4 kg over cents gives hundredths).
StoredRatio(row) ==
    [n  |-> row.kg_co2e \div Val(row.price),
     up |-> row.kg_co2e % Val(row.price) # 0]

\* C13: in every committed state every stored ReceiptItem has a kg_co2e and an
\* item_score in 0..10 that is the band of kg_co2e / price when its price is
\* positive and 5 otherwise, and every transaction an upload was committed for has
\* eco_score in 0..10, needs_receipt false and cashback_usd equal to
\* compute_cashback(amount, eco_score).
C13_Committed ==
    /\ \A row \in receipt_items :
          /\ row.kg_co2e \in Nat
          /\ row.item_score \in 0..10
          /\ row.item_score =
                 IF ~IsNone(row.price) /\ Val(row.price) > 0
                 THEN score_from_co2e_per_dollar(Some(StoredRatio(row)))
                 ELSE 5
    /\ \A t \in TxIds :
          ~IsNone(last_upload[t]) =>
              /\ ~IsNone(transactions[t].eco_score)
              /\ Val(transactions[t].eco_score) \in 0..10
              /\ transactions[t].needs_receipt = FALSE
              /\ transactions[t].cashback_usd =
                     Some(compute_cashback(transactions[t].amount, transactions[t].eco_score))

====
